---- MODULE Spec2Model ----
(***************************************************************************)
(* JA3 / JA3S fingerprint text codec (rustls/src/yes3.rs).                 *)
(*                                                                         *)
(* A text is a sequence of one-character strings.  Ja3::from_str and       *)
(* Ja3S::from_str parse a text into a record of code sequences or fail     *)
(* with the opaque Error; the Display implementations render a record      *)
(* back to text.  The state machine applies these four operations to a     *)
(* current value and records every call in `calls`.                        *)
(***************************************************************************)
EXTENDS Integers, Sequences, FiniteSets, TLC

VARIABLES cur, calls

vars == <<cur, calls>>

(***************************************************************************)
(* Bounds of the model.                                                    *)
(***************************************************************************)
\* longest text drawn character by character from Alphabet
MaxLen == 4
\* largest number of comma-separated segments of a structured input text
MaxFields == 6
\* longest code sequence of the varied field of an input record
MaxVecLen == 2
\* number of operations applied in a row to one input
MaxCalls == 3

(***************************************************************************)
(* Characters.                                                             *)
(***************************************************************************)
DigitChars == <<"0", "1", "2", "3", "4", "5", "6", "7", "8", "9">>

IsDigit(c) == \E i \in 1..10 : DigitChars[i] = c

\* char::to_digit(10) on a character known to be a digit
to_digit(c) == (CHOOSE i \in 1..10 : DigitChars[i] = c) - 1

(***************************************************************************)
(* Result values.                                                          *)
(***************************************************************************)
Ok(x) == [ok |-> TRUE, v |-> x]

Err(e) == [ok |-> FALSE, v |-> e]

\* pub struct Error: a unit struct, one value
Error == "Error"

\* a conversion that keeps the kind of the source error
From_keep(e) == e

\* impl<T: std::error::Error> From<T> for Error: the source error is dropped
From(e) == Error

(***************************************************************************)
(* Integer parsing: <u16>::from_str / <u8>::from_str, called by from_str!  *)
(* on every dash-separated token.  An unsigned type accepts an optional    *)
(* leading '+', never a '-'; a lone sign is an invalid digit; every other  *)
(* character must be a decimal digit; the value is accumulated with        *)
(* checked arithmetic in the type's width.                                 *)
(***************************************************************************)
Pow2(bits) == IF bits = 8 THEN 256 ELSE 65536

RECURSIVE accumulate(_, _, _)
accumulate(digits, acc, bits) ==
    IF digits = <<>> THEN Ok(acc)
    ELSE IF ~IsDigit(Head(digits)) THEN Err("InvalidDigit")
    ELSE LET next == acc * 10 + to_digit(Head(digits))
         IN  IF next >= Pow2(bits) THEN Err("PosOverflow")
             ELSE accumulate(Tail(digits), next, bits)

RECURSIVE trim(_)
trim(s) ==
    IF s # <<>> /\ Head(s) = " " THEN trim(Tail(s))
    ELSE IF s # <<>> /\ s[Len(s)] = " " THEN trim(SubSeq(s, 1, Len(s) - 1))
    ELSE s

\* an integer parser that trims whitespace around the token first
uint_from_str_trim(bits, src) ==
    IF trim(src) = <<>> THEN Err("Empty")
    ELSE IF Len(trim(src)) = 1 /\ Head(trim(src)) \in {"+", "-"} THEN Err("InvalidDigit")
    ELSE IF Head(trim(src)) = "+" THEN accumulate(Tail(trim(src)), 0, bits)
    ELSE accumulate(trim(src), 0, bits)

uint_from_str(bits, src) ==
    IF src = <<>> THEN Err("Empty")
    ELSE IF Len(src) = 1 /\ Head(src) \in {"+", "-"} THEN Err("InvalidDigit")
    ELSE IF Head(src) = "+" THEN accumulate(Tail(src), 0, bits)
    ELSE accumulate(src, 0, bits)

(***************************************************************************)
(* Integer rendering: Display for u16 / u8 (decimal, no padding, no sign). *)
(***************************************************************************)
RECURSIVE uint_fmt_zero_empty(_)
\* a digit loop that emits nothing for 0
uint_fmt_zero_empty(n) ==
    IF n = 0 THEN <<>>
    ELSE Append(uint_fmt_zero_empty(n \div 10), DigitChars[(n % 10) + 1])

RECURSIVE uint_fmt(_)
uint_fmt(n) ==
    IF n < 10 THEN <<DigitChars[n + 1]>>
    ELSE Append(uint_fmt(n \div 10), DigitChars[(n % 10) + 1])

(***************************************************************************)
(* Symbolic codes (ProtocolVersion, CipherSuite, ExtensionType,            *)
(* NamedGroup, ECPointFormat): open wrappers over an integer.              *)
(***************************************************************************)
Into(ty, n) == [ty |-> ty, code |-> n]

get_u16(x) == x.code

get_u8(x) == x.code

(***************************************************************************)
(* str::split and str::splitn on a one-character pattern.                  *)
(***************************************************************************)
\* index of the first occurrence of pat in s, 0 if none
find(s, pat) ==
    IF \E i \in 1..Len(s) : s[i] = pat
    THEN CHOOSE i \in 1..Len(s) : s[i] = pat /\ \A j \in 1..(i - 1) : s[j] # pat
    ELSE 0

RECURSIVE split_skip_empty(_, _)
\* a split that leaves out empty pieces
split_skip_empty(s, pat) ==
    LET i == find(s, pat)
    IN  IF i = 0 THEN (IF s = <<>> THEN <<>> ELSE <<s>>)
        ELSE (IF i = 1 THEN <<>> ELSE <<SubSeq(s, 1, i - 1)>>)
                 \o split_skip_empty(SubSeq(s, i + 1, Len(s)), pat)

RECURSIVE split(_, _)
split(s, pat) ==
    LET i == find(s, pat)
    IN  IF i = 0 THEN <<s>>
        ELSE <<SubSeq(s, 1, i - 1)>> \o split(SubSeq(s, i + 1, Len(s)), pat)

RECURSIVE splitn_short(_, _, _)
\* a splitn that yields one piece fewer than asked
splitn_short(n, s, pat) ==
    LET i == find(s, pat)
    IN  IF n <= 1 THEN <<>>
        ELSE IF n = 2 \/ i = 0 THEN <<s>>
        ELSE <<SubSeq(s, 1, i - 1)>> \o splitn_short(n - 1, SubSeq(s, i + 1, Len(s)), pat)

RECURSIVE splitn(_, _, _)
splitn(n, s, pat) ==
    LET i == find(s, pat)
    IN  IF n = 0 THEN <<>>
        ELSE IF n = 1 \/ i = 0 THEN <<s>>
        ELSE <<SubSeq(s, 1, i - 1)>> \o splitn(n - 1, SubSeq(s, i + 1, Len(s)), pat)

\* missing pieces defaulting to "0" instead of ""
take_parts_default_zero(k, c) == [i \in 1..k |-> IF i <= Len(c) THEN c[i] ELSE <<"0">>]

\* <[(); k]>::default().map(|_| c.next().unwrap_or(""))
take_parts(k, c) == [i \in 1..k |-> IF i <= Len(c) THEN c[i] ELSE <<>>]

(***************************************************************************)
(* macro from_str!: one raw field to a sequence of codes.                  *)
(***************************************************************************)
\* a field parser that collects the codes in reverse
from_str_reversed(ty, bits, input) ==
    IF input = <<>> THEN Ok(<<>>)
    ELSE LET toks == split(input, "-")
             rs   == [i \in 1..Len(toks) |-> uint_from_str(bits, toks[i])]
         IN  IF \E i \in 1..Len(rs) : ~rs[i].ok
             THEN rs[CHOOSE i \in 1..Len(rs) :
                        ~rs[i].ok /\ \A j \in 1..(i - 1) : rs[j].ok]
             ELSE Ok([i \in 1..Len(rs) |-> Into(ty, rs[Len(rs) + 1 - i].v)])

from_str(ty, bits, input) ==
    IF input = <<>> THEN Ok(<<>>)
    ELSE LET toks == split(input, "-")
             rs   == [i \in 1..Len(toks) |-> uint_from_str(bits, toks[i])]
         IN  IF \E i \in 1..Len(rs) : ~rs[i].ok
             THEN rs[CHOOSE i \in 1..Len(rs) :
                        ~rs[i].ok /\ \A j \in 1..(i - 1) : rs[j].ok]
             ELSE Ok([i \in 1..Len(rs) |-> Into(ty, rs[i].v)])

(***************************************************************************)
(* macro format_vec!: one code sequence to text.                           *)
(***************************************************************************)
\* x.$fn() for the identifier $fn given to the macro
getter(fn, x) == IF fn = "get_u8" THEN get_u8(x) ELSE get_u16(x)

RECURSIVE fmt_interior(_, _, _, _)
\* the loop over &vec[..len-1]: each element followed by '-'
fmt_interior(fn, vec, i, last) ==
    IF i >= last THEN <<>>
    ELSE uint_fmt(getter(fn, vec[i])) \o <<"-">> \o fmt_interior(fn, vec, i + 1, last)

format_vec(fn, vec) ==
    IF Len(vec) = 0 THEN <<>>
    ELSE IF Len(vec) = 1 THEN uint_fmt(getter(fn, vec[1]))
    ELSE fmt_interior(fn, vec, 1, Len(vec)) \o uint_fmt(getter(fn, vec[Len(vec)]))

(***************************************************************************)
(* Ja3: the client fingerprint.                                            *)
(***************************************************************************)
\* the first failing field's error, converted by `?`
first_err(fs) ==
    From(fs[CHOOSE i \in 1..Len(fs) : ~fs[i].ok /\ \A j \in 1..(i - 1) : fs[j].ok].v)

\* element type of each field (struct Ja3, in declaration order)
FieldTypes ==
    << "ProtocolVersion", "CipherSuite", "ExtensionType", "NamedGroup", "ECPointFormat" >>

\* every field parsed as u16
Ja3_bits_all16 == << 16, 16, 16, 16, 16 >>

\* the integer type each field's tokens are parsed as: u16 four times, then u8
Ja3_bits == << 16, 16, 16, 16, 8 >>

Ja3_parts(s) == take_parts(5, splitn(5, s, ","))

Ja3_from_str(s) ==
    LET parts == Ja3_parts(s)
        fs == [i \in 1..5 |-> from_str(FieldTypes[i], Ja3_bits[i], parts[i])]
    IN  IF \E i \in 1..5 : ~fs[i].ok THEN Err(first_err(fs))
        ELSE Ok([ssl_versions |-> fs[1].v,
                 ciphers |-> fs[2].v,
                 ssl_extensions |-> fs[3].v,
                 elliptic_curves |-> fs[4].v,
                 elliptic_curve_point_formats |-> fs[5].v])

Ja3_fmt(r) ==
    format_vec("get_u16", r.ssl_versions) \o <<",">> \o
    format_vec("get_u16", r.ciphers) \o <<",">> \o
    format_vec("get_u16", r.ssl_extensions) \o <<",">> \o
    format_vec("get_u16", r.elliptic_curves) \o <<",">> \o
    format_vec("get_u8", r.elliptic_curve_point_formats)

(***************************************************************************)
(* Ja3S: the server fingerprint.                                           *)
(***************************************************************************)
Ja3S_bits == << 16, 16, 16 >>

Ja3S_parts(s) == take_parts(3, splitn(5, s, ","))

Ja3S_from_str(s) ==
    LET parts == Ja3S_parts(s)
        fs == [i \in 1..3 |-> from_str(FieldTypes[i], Ja3S_bits[i], parts[i])]
    IN  IF \E i \in 1..3 : ~fs[i].ok THEN Err(first_err(fs))
        ELSE Ok([ssl_versions |-> fs[1].v,
                 ciphers |-> fs[2].v,
                 ssl_extensions |-> fs[3].v])

Ja3S_fmt(r) ==
    format_vec("get_u16", r.ssl_versions) \o <<",">> \o
    format_vec("get_u16", r.ciphers) \o <<",">> \o
    format_vec("get_u16", r.ssl_extensions)

(***************************************************************************)
(* Inputs.  Texts: every string over Alphabet up to MaxLen characters, the *)
(* comma-joined texts of up to MaxFields segments in which one segment is  *)
(* drawn from VariedFields and the others are one member of PlainFields,   *)
(* and the literal examples.  Records: one field drawn from all code       *)
(* sequences up to MaxVecLen over its codes, the others all empty or all   *)
(* [0].                                                                    *)
(***************************************************************************)
Alphabet == {"7", "-", ",", "+", " ", "a"}

RECURSIVE Strings(_)
Strings(n) ==
    IF n = 0 THEN {<<>>}
    ELSE LET shorter == Strings(n - 1)
         IN  shorter \cup
             {Append(s, c) : s \in {x \in shorter : Len(x) = n - 1}, c \in Alphabet}

VariedFields ==
    { <<"7", "7", "1">>,
      <<"7", "7", "1", "-", "7", "7", "0">>,
      <<"7", "7", "0", "-", "7", "7", "1", "-", "7", "7", "0">>,
      <<"4", "8", "6", "5", "-", "4", "8", "6", "6">>,
      <<"7", "7", "1", "-", "-", "7", "7", "0">>,
      <<"-", "7", "7", "1">>,
      <<"7", "7", "1", "-">>,
      <<"a", "b", "c">>,
      <<"1", "a">>,
      <<" ", "1">>,
      <<"1", " ">>,
      <<"+", "5">>,
      <<"5", "+">>,
      <<"+", "+", "5">>,
      <<"2", "5", "5">>,
      <<"2", "5", "6">>,
      <<"0", "2", "5", "5">>,
      <<"0", "0", "2", "5", "6">>,
      <<"6", "5", "5", "3", "5">>,
      <<"6", "5", "5", "3", "6">>,
      <<"0", "0", "6", "5", "5", "3", "5">>,
      <<"9", "9", "9", "9", "9", "9">>,
      <<"2", "5", "6", "-", "2", "5", "5">> }

PlainFields == { <<>>, <<"0">>, <<"2", "9">> }

RECURSIVE join(_, _)
join(fields, sep) ==
    IF Len(fields) = 1 THEN fields[1]
    ELSE fields[1] \o <<sep>> \o join(Tail(fields), sep)

StructuredTexts ==
    UNION { { join([i \in 1..n |-> IF i = h THEN x ELSE plain], ",") :
                plain \in PlainFields, h \in 1..n, x \in VariedFields } :
            n \in 1..MaxFields }

ExampleTexts ==
    { \* "771-770,4865-4866,0,29,0"
      <<"7","7","1","-","7","7","0",",","4","8","6","5","-","4","8","6","6",",",
        "0",",","2","9",",","0">>,
      \* "771,4865-4866,0-23"
      <<"7","7","1",",","4","8","6","5","-","4","8","6","6",",","0","-","2","3">>,
      \* "771,4865,0,29"
      <<"7","7","1",",","4","8","6","5",",","0",",","2","9">>,
      \* "+771,+4865,+0"
      <<"+","7","7","1",",","+","4","8","6","5",",","+","0">>,
      \* "771,4865,0,29,0,1"
      <<"7","7","1",",","4","8","6","5",",","0",",","2","9",",","0",",","1">> }

InputTexts == Strings(MaxLen) \cup StructuredTexts \cup ExampleTexts

Codes16 == {0, 10, 255, 256, 65535}

Codes8 == {0, 10, 255}

RECURSIVE Vecs(_, _, _)
Vecs(ty, codes, n) ==
    IF n = 0 THEN {<<>>}
    ELSE LET shorter == Vecs(ty, codes, n - 1)
         IN  shorter \cup
             {Append(s, Into(ty, c)) : s \in {x \in shorter : Len(x) = n - 1}, c \in codes}

FieldCodes(i) == IF i = 5 THEN Codes8 ELSE Codes16

\* the tuples of k code sequences: member h varied, the others all empty or
\* all [0]
VecTuples(k) ==
    UNION { { [i \in 1..k |-> IF i = h THEN x
                              ELSE IF one THEN <<Into(FieldTypes[i], 0)>> ELSE <<>>] :
                one \in BOOLEAN,
                x \in Vecs(FieldTypes[h], FieldCodes(h), MaxVecLen) } :
            h \in 1..k }

InputJa3 ==
    { [ssl_versions |-> t[1], ciphers |-> t[2], ssl_extensions |-> t[3],
       elliptic_curves |-> t[4], elliptic_curve_point_formats |-> t[5]] :
      t \in VecTuples(5) }

InputJa3S ==
    { [ssl_versions |-> t[1], ciphers |-> t[2], ssl_extensions |-> t[3]] :
      t \in VecTuples(3) }

(***************************************************************************)
(* The state: `cur` is the value in hand (kind "text", "Ja3", "Ja3S" or    *)
(* "Error"), `calls` the operations applied so far, each with its argument *)
(* and its result.                                                         *)
(***************************************************************************)
NoText == <<>>

NoFp == [none |-> TRUE]

Text(s) == [k |-> "text", text |-> s, fp |-> NoFp]

Fp(form, r) == [k |-> form, text |-> NoText, fp |-> r]

Failed(e) == [k |-> e, text |-> NoText, fp |-> NoFp]

\* a Result<Self, Error> as the value in hand
Value(form, res) == IF res.ok THEN Fp(form, res.v) ELSE Failed(res.v)

Init ==
    /\ cur \in {Text(s) : s \in InputTexts}
               \cup {Fp("Ja3", r) : r \in InputJa3}
               \cup {Fp("Ja3S", r) : r \in InputJa3S}
    /\ calls = <<>>

Call(op, result) ==
    /\ Len(calls) < MaxCalls
    /\ cur' = result
    /\ calls' = Append(calls, [op |-> op, arg |-> cur, ret |-> result])

\* s.parse::<Ja3>()
ParseJa3 ==
    /\ cur.k = "text"
    /\ Call("Ja3::from_str", Value("Ja3", Ja3_from_str(cur.text)))

\* ja3.to_string()
RenderJa3 ==
    /\ cur.k = "Ja3"
    /\ Call("Ja3::fmt", Text(Ja3_fmt(cur.fp)))

\* s.parse::<Ja3S>()
ParseJa3S ==
    /\ cur.k = "text"
    /\ Call("Ja3S::from_str", Value("Ja3S", Ja3S_from_str(cur.text)))

\* ja3s.to_string()
RenderJa3S ==
    /\ cur.k = "Ja3S"
    /\ Call("Ja3S::fmt", Text(Ja3S_fmt(cur.fp)))

Next == ParseJa3 \/ RenderJa3 \/ ParseJa3S \/ RenderJa3S

Spec == Init /\ [][Next]_vars

(***************************************************************************)
(* Vocabulary of the properties.  Raw fields, tokens and their values are  *)
(* described by position in the text, independently of split, splitn and   *)
(* the integer parser.                                                     *)
(***************************************************************************)
IsParse(c) == c.op \in {"Ja3::from_str", "Ja3S::from_str"}

IsRender(c) == c.op \in {"Ja3::fmt", "Ja3S::fmt"}

Arity(op) == IF op \in {"Ja3::from_str", "Ja3::fmt"} THEN 5 ELSE 3

MaxCode(j) == IF j = 5 THEN 255 ELSE 65535

PartsOf(c) ==
    IF c.op = "Ja3::from_str" THEN Ja3_parts(c.arg.text) ELSE Ja3S_parts(c.arg.text)

\* the code sequences of a fingerprint value, in field order
FieldsOf(x) ==
    IF x.k = "Ja3"
    THEN << x.fp.ssl_versions, x.fp.ciphers, x.fp.ssl_extensions,
            x.fp.elliptic_curves, x.fp.elliptic_curve_point_formats >>
    ELSE << x.fp.ssl_versions, x.fp.ciphers, x.fp.ssl_extensions >>

Succeeded(c) == c.ret.k \in {"Ja3", "Ja3S"}

Count(s, ch) == Cardinality({p \in 1..Len(s) : s[p] = ch})

\* position of the n-th occurrence of ch in s
Nth(s, ch, n) ==
    CHOOSE p \in 1..Len(s) : s[p] = ch /\ Count(SubSeq(s, 1, p), ch) = n

NumPieces(s, ch) == Count(s, ch) + 1

\* the i-th piece of s between occurrences of ch
Piece(s, ch, i) ==
    SubSeq(s,
           IF i = 1 THEN 1 ELSE Nth(s, ch, i - 1) + 1,
           IF i = NumPieces(s, ch) THEN Len(s) ELSE Nth(s, ch, i) - 1)

NumTokens(field) == NumPieces(field, "-")

\* the i-th dash-separated token of a raw field
Token(field, i) == Piece(field, "-", i)

\* the j-th of the a raw fields of text t: t is cut at its first a-1 commas
\* only, and a field t has no piece for is empty
RawField(t, a, j) ==
    IF j > NumPieces(t, ",") THEN <<>>
    ELSE IF j < a THEN Piece(t, ",", j)
    ELSE SubSeq(t, IF j = 1 THEN 1 ELSE Nth(t, ",", j - 1) + 1, Len(t))

\* The raw fields the field parser is given in call c.  Both parsers cut the
\* text at its first four commas; the client parser keeps the five pieces,
\* the server parser the first three of them (C2 is about that difference).
FieldTexts(c) == [j \in 1..Arity(c.op) |-> RawField(c.arg.text, 5, j)]

DigitsOnly(tok) == \A p \in 1..Len(tok) : IsDigit(tok[p])

RECURSIVE Decimal(_)
\* the number a digit string denotes
Decimal(tok) ==
    IF tok = <<>> THEN 0
    ELSE 10 * Decimal(SubSeq(tok, 1, Len(tok) - 1)) + to_digit(tok[Len(tok)])

\* a digit string with no superfluous leading zero
Canonical(tok) == tok # <<>> /\ DigitsOnly(tok) /\ (Len(tok) = 1 \/ tok[1] # "0")

(***************************************************************************)
(* C1.  Record round trip: parsing the text rendered from a record, in the *)
(* same form, succeeds and gives back that record, field by field, same    *)
(* elements in the same order.                                             *)
(***************************************************************************)
C1_RecordRoundTrip ==
    \A i \in 1..(Len(calls) - 1) :
        /\ (calls[i].op = "Ja3::fmt" /\ calls[i + 1].op = "Ja3::from_str")
              => /\ calls[i + 1].ret.k = "Ja3"
                 /\ calls[i + 1].ret.fp = calls[i].arg.fp
        /\ (calls[i].op = "Ja3S::fmt" /\ calls[i + 1].op = "Ja3S::from_str")
              => /\ calls[i + 1].ret.k = "Ja3S"
                 /\ calls[i + 1].ret.fp = calls[i].arg.fp

\* an input client record with two different versions and a point format has
\* been rendered and parsed back
C1_Witness ==
    /\ Len(calls) >= 2
    /\ calls[1].op = "Ja3::fmt"
    /\ calls[2].op = "Ja3::from_str"
    /\ calls[1].arg.fp.ssl_versions
          = << Into("ProtocolVersion", 65535), Into("ProtocolVersion", 10) >>
    /\ calls[1].arg.fp.elliptic_curve_point_formats = << Into("ECPointFormat", 0) >>
    /\ calls[2].ret.k = "Ja3"

(***************************************************************************)
(* C6.  Render shape: render always yields a text; it holds exactly        *)
(* arity-1 commas and only digits, '-' and ','; the j-th comma-separated   *)
(* piece is empty for an empty field and otherwise has one token per       *)
(* element, each the decimal numeral of that element's code.               *)
(***************************************************************************)
C6_RenderShape ==
    \A i \in 1..Len(calls) :
        IsRender(calls[i]) =>
            LET t == calls[i].ret.text
                fs == FieldsOf(calls[i].arg)
                a == Arity(calls[i].op)
            IN  /\ calls[i].ret.k = "text"
                /\ Len(fs) = a
                /\ Count(t, ",") = a - 1
                /\ \A p \in 1..Len(t) : IsDigit(t[p]) \/ t[p] \in {"-", ","}
                /\ \A j \in 1..a :
                       LET piece == Piece(t, ",", j)
                           n == Len(fs[j])
                       IN  /\ Count(piece, "-") = IF n = 0 THEN 0 ELSE n - 1
                           /\ n = 0 => piece = <<>>
                           /\ n > 0 => \A e \in 1..n :
                                  /\ Canonical(Token(piece, e))
                                  /\ Decimal(Token(piece, e)) = fs[j][e].code

\* the all-empty client record has been rendered as ",,,,"
C6_Witness ==
    \E i \in 1..Len(calls) :
        /\ calls[i].op = "Ja3::fmt"
        /\ \A j \in 1..5 : FieldsOf(calls[i].arg)[j] = <<>>
        /\ calls[i].ret.text = <<",", ",", ",", ",">>

(***************************************************************************)
(* C7.  Text round trip: a text produced by render parses, in the same     *)
(* form, and rendering the parsed record gives the same text again.        *)
(***************************************************************************)
C7_TextRoundTrip ==
    \A i \in 1..(Len(calls) - 1) :
        (/\ IsRender(calls[i])
         /\ IsParse(calls[i + 1])
         /\ Arity(calls[i + 1].op) = Arity(calls[i].op))
            => /\ Succeeded(calls[i + 1])
               /\ (i + 2 <= Len(calls) /\ IsRender(calls[i + 2]))
                     => calls[i + 2].ret.text = calls[i].ret.text

\* a server record with a two-element field went through render, parse, render
C7_Witness ==
    /\ Len(calls) >= 3
    /\ calls[1].op = "Ja3S::fmt"
    /\ calls[2].op = "Ja3S::from_str"
    /\ calls[3].op = "Ja3S::fmt"
    /\ Len(calls[1].arg.fp.ciphers) = 2
    /\ calls[3].ret.text = calls[1].ret.text

(***************************************************************************)
(* C3.  Digits only (as claimed): whenever a parse succeeds, every         *)
(* character of every token of every non-empty raw field is a decimal      *)
(* digit.                                                                  *)
(***************************************************************************)
C3_DigitsOnly ==
    \A i \in 1..Len(calls) :
        (IsParse(calls[i]) /\ Succeeded(calls[i])) =>
            \A j \in 1..Arity(calls[i].op) :
                LET field == FieldTexts(calls[i])[j]
                IN  field # <<>> =>
                        \A e \in 1..NumTokens(field) : DigitsOnly(Token(field, e))

\* a token without its one optional leading '+'
StripPlus(tok) == IF tok # <<>> /\ tok[1] = "+" THEN Tail(tok) ELSE tok

(***************************************************************************)
(* C3, amended.  Whenever a parse succeeds, every non-empty token of every *)
(* non-empty raw field is one or more decimal digits, optionally preceded  *)
(* by a single '+'; any other character in a token (a letter, a space, a   *)
(* '+' elsewhere, a comma) makes the parse return the error.               *)
(***************************************************************************)
C3_DigitsAfterOptionalPlus ==
    \A i \in 1..Len(calls) :
        (IsParse(calls[i]) /\ Succeeded(calls[i])) =>
            \A j \in 1..Arity(calls[i].op) :
                LET field == FieldTexts(calls[i])[j]
                IN  field # <<>> =>
                        \A e \in 1..NumTokens(field) :
                            Token(field, e) # <<>> =>
                                /\ StripPlus(Token(field, e)) # <<>>
                                /\ DigitsOnly(StripPlus(Token(field, e)))

\* a client text whose point-format field holds a token with a comma in it,
\* all other tokens being digits, has been parsed and rejected
C3_Witness ==
    \E i \in 1..Len(calls) :
        /\ calls[i].op = "Ja3::from_str"
        /\ calls[i].ret.k = Error
        /\ \E p \in 1..Len(FieldTexts(calls[i])[5]) : FieldTexts(calls[i])[5][p] = ","
        /\ \A p \in 1..Len(calls[i].arg.text) :
               IsDigit(calls[i].arg.text[p]) \/ calls[i].arg.text[p] = ","

\* the integer width field j of the form of call c is parsed with
BitsOf(c, j) == IF c.op = "Ja3::from_str" THEN Ja3_bits[j] ELSE Ja3S_bits[j]

\* a token the field parser takes: digits, optionally after one '+', in range
ValidToken(tok, j) ==
    /\ StripPlus(tok) # <<>>
    /\ DigitsOnly(StripPlus(tok))
    /\ Decimal(StripPlus(tok)) <= MaxCode(j)

AcceptableField(field, j) ==
    field = <<>> \/ \A e \in 1..NumTokens(field) : ValidToken(Token(field, e), j)

(***************************************************************************)
(* C2.  Arity-limited split, both forms: the raw fields are the text cut   *)
(* at its first arity-1 commas, the last field keeping everything after    *)
(* the (arity-1)-th comma, further commas included; missing fields are     *)
(* empty.  Nothing of the text is dropped, so a parse succeeds only if     *)
(* each of these raw fields is acceptable.                                 *)
(***************************************************************************)
C2_AritySplit ==
    \A i \in 1..Len(calls) :
        IsParse(calls[i]) =>
            LET a == Arity(calls[i].op)
            IN  /\ Len(PartsOf(calls[i])) = a
                /\ \A j \in 1..a :
                       PartsOf(calls[i])[j] = RawField(calls[i].arg.text, a, j)
                /\ Succeeded(calls[i]) =>
                       \A j \in 1..a :
                           AcceptableField(RawField(calls[i].arg.text, a, j), j)

(***************************************************************************)
(* C4.  Per-width range: a non-empty digit-only token is taken by the      *)
(* integer parser of its field exactly when its value is at most 65535 in  *)
(* the four 16-bit fields and at most 255 in the client point-format       *)
(* field; a parse that succeeds has every digit-only token in range, and   *)
(* a text all of whose tokens are digit-only and in range parses.          *)
(***************************************************************************)
C4_WidthRange ==
    \A i \in 1..Len(calls) :
        IsParse(calls[i]) =>
            LET a == Arity(calls[i].op)
                parts == FieldTexts(calls[i])
                Digit(j, e) == /\ Token(parts[j], e) # <<>>
                               /\ DigitsOnly(Token(parts[j], e))
                InRange(j, e) == Decimal(Token(parts[j], e)) <= MaxCode(j)
            IN  /\ \A j \in 1..a : \A e \in 1..NumTokens(parts[j]) :
                       Digit(j, e) =>
                           /\ uint_from_str(BitsOf(calls[i], j), Token(parts[j], e)).ok
                                 = InRange(j, e)
                           /\ Succeeded(calls[i]) => InRange(j, e)
                /\ (\A j \in 1..a : parts[j] # <<>> =>
                        \A e \in 1..NumTokens(parts[j]) : Digit(j, e) /\ InRange(j, e))
                       => Succeeded(calls[i])

\* a client text with "256" as its point-format field and nothing else wrong
\* has been rejected
C4_Witness ==
    \E i \in 1..Len(calls) :
        /\ calls[i].op = "Ja3::from_str"
        /\ FieldTexts(calls[i])[5] = <<"2", "5", "6">>
        /\ \A j \in 1..4 : AcceptableField(FieldTexts(calls[i])[j], j)
        /\ calls[i].ret.k = Error

(***************************************************************************)
(* C5.  Missing and empty fields: a text with fewer than arity-1 commas    *)
(* parses to what the text padded with commas up to arity-1 parses to, its *)
(* missing trailing fields being empty sequences; an empty raw field in    *)
(* any position gives an empty sequence and is never what fails a parse.   *)
(***************************************************************************)
RECURSIVE Commas(_)
Commas(n) == IF n <= 0 THEN <<>> ELSE <<",">> \o Commas(n - 1)

C5_MissingAndEmpty ==
    \A i \in 1..Len(calls) :
        IsParse(calls[i]) =>
            LET a == Arity(calls[i].op)
                t == calls[i].arg.text
                parts == FieldTexts(calls[i])
                padded == t \o Commas(a - 1 - Count(t, ","))
            IN  /\ Count(t, ",") < a - 1 =>
                       calls[i].ret = IF a = 5 THEN Value("Ja3", Ja3_from_str(padded))
                                               ELSE Value("Ja3S", Ja3S_from_str(padded))
                /\ Succeeded(calls[i]) =>
                       \A j \in 1..a :
                           (j > NumPieces(t, ",") \/ parts[j] = <<>>)
                               => FieldsOf(calls[i].ret)[j] = <<>>
                /\ ~Succeeded(calls[i]) =>
                       \E j \in 1..a : parts[j] # <<>> /\ ~AcceptableField(parts[j], j)

\* the client text "771" has been parsed: versions [771], four empty fields
C5_Witness ==
    \E i \in 1..Len(calls) :
        /\ calls[i].op = "Ja3::from_str"
        /\ calls[i].arg.text = <<"7", "7", "1">>
        /\ calls[i].ret.k = "Ja3"
        /\ FieldsOf(calls[i].ret) =
              << <<Into("ProtocolVersion", 771)>>, <<>>, <<>>, <<>>, <<>> >>

(***************************************************************************)
(* C8.  Order and multiplicity: when a parse succeeds, each field has one  *)
(* element per dash-separated token of its raw field (none for an empty    *)
(* raw field) and its i-th element is the value of the i-th token.         *)
(***************************************************************************)
C8_OrderAndMultiplicity ==
    \A i \in 1..Len(calls) :
        (IsParse(calls[i]) /\ Succeeded(calls[i])) =>
            \A j \in 1..Arity(calls[i].op) :
                LET field == FieldTexts(calls[i])[j]
                    vec == FieldsOf(calls[i].ret)[j]
                IN  /\ Len(vec) = IF field = <<>> THEN 0 ELSE NumTokens(field)
                    /\ \A e \in 1..Len(vec) :
                           /\ vec[e].code = Decimal(StripPlus(Token(field, e)))
                           /\ vec[e].ty = FieldTypes[j]

\* the client text "771-770,4865-4866,0,29,0" has been parsed, versions
\* [771, 770]
C8_Witness ==
    \E i \in 1..Len(calls) :
        /\ calls[i].op = "Ja3::from_str"
        /\ FieldTexts(calls[i])[1] = <<"7", "7", "1", "-", "7", "7", "0">>
        /\ FieldTexts(calls[i])[2] = <<"4", "8", "6", "5", "-", "4", "8", "6", "6">>
        /\ calls[i].ret.k = "Ja3"
        /\ calls[i].ret.fp.ssl_versions
              = << Into("ProtocolVersion", 771), Into("ProtocolVersion", 770) >>

(***************************************************************************)
(* C9.  Empty tokens are rejected: a non-empty raw field with an empty     *)
(* token (doubled, leading or trailing dash) fails the parse; a field      *)
(* parsed to the empty sequence had an empty raw field.                    *)
(***************************************************************************)
C9_EmptyTokenRejected ==
    \A i \in 1..Len(calls) :
        IsParse(calls[i]) =>
            \A j \in 1..Arity(calls[i].op) :
                LET field == FieldTexts(calls[i])[j]
                IN  /\ (/\ field # <<>>
                        /\ \E e \in 1..NumTokens(field) : Token(field, e) = <<>>)
                           => calls[i].ret.k = Error
                    /\ (Succeeded(calls[i]) /\ FieldsOf(calls[i].ret)[j] = <<>>)
                           => field = <<>>

\* a text whose only defect is a trailing dash ("771-") has been rejected
C9_Witness ==
    \E i \in 1..Len(calls) :
        /\ IsParse(calls[i])
        /\ FieldTexts(calls[i])[1] = <<"7", "7", "1", "-">>
        /\ \A j \in 2..Arity(calls[i].op) : AcceptableField(FieldTexts(calls[i])[j], j)
        /\ calls[i].ret.k = Error

(***************************************************************************)
(* C10.  All or nothing: a parse returns a record exactly when every one   *)
(* of its raw fields is acceptable on its own; otherwise it returns the    *)
(* one Error value, with no record, whichever and however many tokens are  *)
(* invalid.                                                                *)
(***************************************************************************)
C10_AllOrNothing ==
    \A i \in 1..Len(calls) :
        IsParse(calls[i]) =>
            LET a == Arity(calls[i].op)
                good == \A j \in 1..a : AcceptableField(FieldTexts(calls[i])[j], j)
            IN  /\ Succeeded(calls[i]) = good
                /\ good => calls[i].ret.k = (IF a = 5 THEN "Ja3" ELSE "Ja3S")
                /\ ~good => calls[i].ret = Failed(Error)

\* a text with two unacceptable fields, failing for different reasons, has
\* been rejected
C10_Witness ==
    \E i \in 1..Len(calls) :
        /\ IsParse(calls[i])
        /\ \E j1, j2 \in 1..Arity(calls[i].op) :
               /\ j1 # j2
               /\ ~from_str(FieldTypes[j1], 16, FieldTexts(calls[i])[j1]).ok
               /\ ~from_str(FieldTypes[j2], 16, FieldTexts(calls[i])[j2]).ok
               /\ from_str(FieldTypes[j1], 16, FieldTexts(calls[i])[j1]).v
                     # from_str(FieldTypes[j2], 16, FieldTexts(calls[i])[j2]).v
        /\ calls[i].ret = Failed(Error)

====
